---- MODULE Spec2Model ----
(***************************************************************************)
(* Model of the relay engine of src/index.ts: the two-generation           *)
(* StoredMessages cache, the content rewriting of one inbound chain and    *)
(* the mutex-serialised fan-out of the 'GroupMessage' handler.             *)
(***************************************************************************)
EXTENDS Integers, Sequences, FiniteSets, TLC

(***************************************************************************)
(* Bounds.  threshold is the cache's rotation threshold; the source sets   *)
(* it to 200 (src/index.ts:54) and the model scales it down so that        *)
(* rotations happen within a few adds.  Every formula below is stated in   *)
(* terms of threshold, never of its value.                                 *)
(***************************************************************************)
threshold == 1

\* keys offered to the stand-alone cache of CacheSpec
MaxKey == 5

\* configured groups
NumGroups == 4

\* inbound group messages delivered in one run
MaxMsgs == 2

\* the bot's own account, config.qq (src/index.ts:45)
qq == 9

undefined == [type |-> "undefined"]

\* F applied to the value of v, v evaluated once
Bind(v, F(_)) == CHOOSE r \in {F(x) : x \in {v}} : TRUE

(***************************************************************************)
(* StoredMessages (src/index.ts:53-74)                                     *)
(***************************************************************************)
\* new Map()
EmptyMap == [k \in {} |-> undefined]

\* Map.prototype.set
MapSet(m, k, v) == [x \in (DOMAIN m) \cup {k} |-> IF x = k THEN v ELSE m[x]]

\* Map.prototype.get
MapGet(m, k) == IF k \in DOMAIN m THEN m[k] ELSE undefined

\* Map.prototype.size
MapSize(m) == Cardinality(DOMAIN m)

\* a || b on values that are objects or undefined
OrElse(a, b) == IF a # undefined THEN a ELSE b

\* the state of a StoredMessages right after construction; data is the
\* two-element array, indexed from 0 in the source and from 1 here
NewStoredMessages ==
  [data |-> <<EmptyMap, EmptyMap>>, currentIndex |-> 0, otherIndex |-> 1]

current(c) == c.data[c.currentIndex + 1]

other(c) == c.data[c.otherIndex + 1]

\* the condition of line 62 off by one, either way
RotateEarly(c) == MapSize(current(c)) >= threshold

RotateLate(c) == MapSize(current(c)) > threshold + 1

\* the condition of line 62
ShouldRotate(c) == MapSize(current(c)) > threshold

\* lines 64-65: swap the two indices, then clear the new current
Rotate(c) ==
  [data |-> [c.data EXCEPT ![c.otherIndex + 1] = EmptyMap],
   currentIndex |-> c.otherIndex,
   otherIndex |-> c.currentIndex]

addThenRotate(c, original, translated) ==
  LET w == [c EXCEPT !.data[c.currentIndex + 1] = MapSet(@, original, translated)]
  IN  IF ShouldRotate(w) THEN Rotate(w) ELSE w

add(c, original, translated) ==
  LET r == IF ShouldRotate(c) THEN Rotate(c) ELSE c
  IN  [r EXCEPT !.data[r.currentIndex + 1] = MapSet(@, original, translated)]

translateOtherFirst(c, messageId) ==
  OrElse(MapGet(other(c), messageId), MapGet(current(c), messageId))

translate(c, messageId) ==
  OrElse(MapGet(current(c), messageId), MapGet(other(c), messageId))

(***************************************************************************)
(* Configuration and message chains                                        *)
(***************************************************************************)
\* config.groups, in configuration order (src/index.ts:45)
groupNumbers == [i \in 1..NumGroups |-> i]

Groups == {groupNumbers[i] : i \in 1..NumGroups}

\* a group the bot is in that is not configured
OtherGroup == NumGroups + 1

\* the member lists the platform returns at startup (mirai.api.memberList):
\* user 1 is in groups 1 and 2, user 2 in groups 1 and 3; later groups have
\* only user 3
MemberList(g) ==
  CASE g = 1 -> MapSet(MapSet(EmptyMap, 1, "A1"), 2, "B1")
    [] g = 2 -> MapSet(EmptyMap, 1, "A2")
    [] g = 3 -> MapSet(EmptyMap, 2, "B3")
    [] OTHER -> MapSet(EmptyMap, 3, "C")

\* message ids are assigned by the platform; the model gives the h-th inbound
\* message and each of its relayed copies ids of their own, distinct across
\* groups: the caches only compare ids, so any one-to-one choice behaves alike
MessageId(h) == 10 * h

SentId(h, g) == 10 * h + g

Source(id) == [type |-> "Source", id |-> id]

Plain(text) == [type |-> "Plain", text |-> text]

At(target, display) == [type |-> "At", target |-> target, display |-> display]

Quote(id) == [type |-> "Quote", id |-> id]

\* an entry of the chain that is no object: reading its type throws.  It is
\* the one way the try block of the handler can throw, and it does so for
\* every target before any send is issued
Null == [type |-> "null"]

(***************************************************************************)
(* Content rewriting (src/index.ts:110-161)                                *)
(***************************************************************************)
\* JavaScript truthiness of a number and of a string
TruthyNumber(n) == n # 0

TruthyString(t) == t # ""

\* reading x.type of any entry of the chain throws for an entry that is no
\* object (line 114)
Throws(chain) == \E i \in 1..Len(chain) : chain[i] = Null

\* the filter pass with the first quote that resolves kept: quote || translate
RECURSIVE filterFromFirstQuote(_, _, _, _, _)
filterFromFirstQuote(chain, i, cache, quote, atMeCounter) ==
  IF i > Len(chain) THEN [kept |-> << >>, quote |-> quote]
  ELSE
    LET x == chain[i]
        keep == Bind(filterFromFirstQuote(chain, i + 1, cache, quote, atMeCounter),
                     LAMBDA rest :
                       [kept |-> <<x>> \o rest.kept, quote |-> rest.quote])
    IN  IF x.type = "At"
        THEN IF quote # undefined /\ x.target = qq
             THEN Bind(filterFromFirstQuote(chain, i + 1, cache, quote,
                                            atMeCounter + 1),
                       LAMBDA rest :
                         [kept |-> IF atMeCounter = 0 THEN <<x>> \o rest.kept
                                   ELSE rest.kept,
                          quote |-> rest.quote])
             ELSE keep
        ELSE IF x.type # "Quote"
        THEN keep
        ELSE Bind(OrElse(quote, translate(cache, x.id)),
                  LAMBDA q : filterFromFirstQuote(chain, i + 1, cache, q,
                                                  atMeCounter))

\* the filter pass keeping every mention of the bot, atMeCounter unused
RECURSIVE filterFromKeepAll(_, _, _, _, _)
filterFromKeepAll(chain, i, cache, quote, atMeCounter) ==
  IF i > Len(chain) THEN [kept |-> << >>, quote |-> quote]
  ELSE
    LET x == chain[i]
        keep == Bind(filterFromKeepAll(chain, i + 1, cache, quote, atMeCounter),
                     LAMBDA rest :
                       [kept |-> <<x>> \o rest.kept, quote |-> rest.quote])
    IN  IF x.type # "Quote"
        THEN keep
        ELSE Bind(OrElse(translate(cache, x.id), quote),
                  LAMBDA q : filterFromKeepAll(chain, i + 1, cache, q, atMeCounter))

\* the filter pass dropping a mention of the bot met while no quote is resolved
RECURSIVE filterFromDropSelf(_, _, _, _, _)
filterFromDropSelf(chain, i, cache, quote, atMeCounter) ==
  IF i > Len(chain) THEN [kept |-> << >>, quote |-> quote]
  ELSE
    LET x == chain[i]
        keep == Bind(filterFromDropSelf(chain, i + 1, cache, quote, atMeCounter),
                     LAMBDA rest :
                       [kept |-> <<x>> \o rest.kept, quote |-> rest.quote])
    IN  IF x.type = "At"
        THEN IF x.target = qq
             THEN Bind(filterFromDropSelf(chain, i + 1, cache, quote,
                                          IF quote # undefined
                                          THEN atMeCounter + 1 ELSE atMeCounter),
                       LAMBDA rest :
                         [kept |-> IF quote # undefined /\ atMeCounter = 0
                                   THEN <<x>> \o rest.kept
                                   ELSE rest.kept,
                          quote |-> rest.quote])
             ELSE keep
        ELSE IF x.type # "Quote"
        THEN keep
        ELSE Bind(OrElse(translate(cache, x.id), quote),
                  LAMBDA q : filterFromDropSelf(chain, i + 1, cache, q, atMeCounter))

\* lines 110-127: the filter pass from entry i on, with the running quote and
\* atMeCounter; yields the kept entries and the final quote
RECURSIVE filterFrom(_, _, _, _, _)
filterFrom(chain, i, cache, quote, atMeCounter) ==
  IF i > Len(chain) THEN [kept |-> << >>, quote |-> quote]
  ELSE
    LET x == chain[i]
        keep == Bind(filterFrom(chain, i + 1, cache, quote, atMeCounter),
                     LAMBDA rest :
                       [kept |-> <<x>> \o rest.kept, quote |-> rest.quote])
    IN  IF x.type = "At"
        THEN IF quote # undefined /\ x.target = qq
             THEN Bind(filterFrom(chain, i + 1, cache, quote, atMeCounter + 1),
                       LAMBDA rest :
                         [kept |-> IF atMeCounter = 0 THEN <<x>> \o rest.kept
                                   ELSE rest.kept,
                          quote |-> rest.quote])
             ELSE keep
        ELSE IF x.type # "Quote"
        THEN keep
        ELSE Bind(OrElse(translate(cache, x.id), quote),
                  LAMBDA q : filterFrom(chain, i + 1, cache, q, atMeCounter))

\* the member maps of the configured groups alone, in configuration order
searchFromConfigured(targetMembers, originalMembers, allMembers) ==
  [i \in 1..NumGroups |-> allMembers[groupNumbers[i]]]

\* lines 143-146: the member maps searched for a display name, in order
searchFrom(targetMembers, originalMembers, allMembers) ==
  <<targetMembers, originalMembers>>
    \o [i \in 1..NumGroups |-> allMembers[groupNumbers[i]]]

\* lines 148-155: the first truthy match, else the mention's display text
RECURSIVE findName(_, _, _, _)
findName(search, i, target, display) ==
  IF i > Len(search) THEN display
  ELSE IF target \in DOMAIN search[i] /\ TruthyString(search[i][target])
       THEN search[i][target]
       ELSE findName(search, i + 1, target, display)

\* the map pass with the membership test of line 141 left out
mapEntryNoMemberTest(x, quote, targetMembers, search) ==
  IF x.type # "At" THEN x
  ELSE
    LET y == IF x.target = qq
             THEN [x EXCEPT !.target =
                     IF quote # undefined /\ TruthyNumber(quote.author)
                     THEN quote.author ELSE qq]
             ELSE x
        isQuoteAuthor == quote # undefined /\ y.target = quote.author
    IN  IF ~isQuoteAuthor
        THEN Plain("@" \o findName(search, 1, y.target, y.display))
        ELSE y

\* the map pass with the retargeting of line 134 left out
mapEntryNoRetarget(x, quote, targetMembers, search) ==
  IF x.type # "At" THEN x
  ELSE
    LET isQuoteAuthor == quote # undefined /\ x.target = quote.author
    IN  IF ~isQuoteAuthor \/ x.target \notin DOMAIN targetMembers
        THEN Plain("@" \o findName(search, 1, x.target, x.display))
        ELSE x

\* lines 128-161: the map pass on one kept entry, given the final quote
mapEntry(x, quote, targetMembers, search) ==
  IF x.type # "At" THEN x
  ELSE
    LET y == IF x.target = qq
             THEN [x EXCEPT !.target =
                     IF quote # undefined /\ TruthyNumber(quote.author)
                     THEN quote.author ELSE qq]
             ELSE x
        isQuoteAuthor == quote # undefined /\ y.target = quote.author
    IN  IF ~isQuoteAuthor \/ y.target \notin DOMAIN targetMembers
        THEN Plain("@" \o findName(search, 1, y.target, y.display))
        ELSE y

\* lines 110-161 for one target: the processed chain and the resolved quote.
\* The cache read is the one destructured from the target group (line 109).
rewrite(chain, cache, targetMembers, originalMembers, allMembers) ==
  LET search == searchFrom(targetMembers, originalMembers, allMembers)
  IN  Bind(filterFrom(chain, 1, cache, undefined, 0),
           LAMBDA f :
             [processed |-> [i \in 1..Len(f.kept) |->
                               mapEntry(f.kept[i], f.quote, targetMembers, search)],
              quote |-> f.quote])

(***************************************************************************)
(* A stand-alone cache driven by arbitrary add calls                       *)
(***************************************************************************)
Keys == 1..MaxKey

CacheValues == {[id |-> 10, author |-> 1], [id |-> 20, author |-> 2]}

VARIABLES
  members,    \* per configured group, its member snapshot (id -> name)
  stored,     \* per configured group, its StoredMessages
  mutex,      \* the Mutex: whether it is held, and the queued acquirers
  msgs,       \* the inbound group messages delivered so far, in order; the
              \* h-th one is handled by handler invocation h
  pc,         \* per handler invocation, where it stands
  out,        \* per handler invocation and group, the send made to the group
  accessOrder,\* history: the handler invocations in the order in which they
              \* touched a cache, a run of touches by one handler noted once
  lastDone,   \* history: the handler that recorded mappings last, 0 if none
  sm,         \* one StoredMessages instance
  latest,     \* history: per key, the value of its last add and the index
              \* of the generation that add wrote to; undefined once a
              \* rotation has cleared that generation since
  added,      \* history: the keys added before the first rotation
  rotations,  \* history: rotations so far, counted 0, 1, 2 = two or more
  lastKey,    \* history: the key of the latest add on sm, 0 before any
  tracked,    \* history: a key that the last add before a rotation
              \* inserted, with the number of add calls made since
  rw,         \* one rewriting of a content chain: its inputs
  sent        \* the arguments of the send that follows that rewriting

cacheVars == <<sm, latest, added, rotations>>

relayVars == <<members, stored, mutex, msgs, pc, out, accessOrder, lastDone>>

evictVars == <<lastKey, tracked>>

rewriteVars == <<rw, sent>>

vars == <<members, stored, mutex, msgs, pc, out, accessOrder, lastDone,
          sm, latest, added, rotations, lastKey, tracked, rw, sent>>

CacheInit ==
  /\ sm = NewStoredMessages
  /\ latest = [k \in Keys |-> undefined]
  /\ added = {}
  /\ rotations = 0

\* one call sm.add(k, v), with the history kept beside it.  A rotation is
\* observed on the instance: its currentIndex changed.
CacheAddOf(k, v) ==
  LET next == add(sm, k, v)
      rotated == next.currentIndex # sm.currentIndex
  IN  /\ sm' = next
      /\ latest' =
           [x \in Keys |->
              IF x = k THEN [value |-> v, gen |-> next.currentIndex]
              ELSE IF rotated /\ latest[x] # undefined
                      /\ latest[x].gen = next.currentIndex
                   THEN undefined
                   ELSE latest[x]]
      /\ rotations' = IF rotated THEN (IF rotations = 0 THEN 1 ELSE 2)
                      ELSE rotations
      /\ added' = IF rotations' = 2 THEN {}
                  ELSE IF rotations' = 1 THEN added
                  ELSE added \cup {k}

CacheAdd == \E k \in Keys, v \in CacheValues : CacheAddOf(k, v)

\* the history of the lifetime of a key: no add has been made, no key is
\* followed
EvictInit ==
  /\ lastKey = 0
  /\ tracked = undefined

\* the add calls counted for a followed key, up to this many
MaxFurther == threshold + 3

\* one call sm.add(k, v) with the lifetime history kept beside it.  When the
\* call rotates, the key that the add before it inserted starts being
\* followed, this call being the first made since; the key is followed while
\* it is translatable and not added again.  The value added plays no part in
\* what is evicted.
TrackedAdd ==
  \E k \in Keys :
    LET rotated == add(sm, k, [author |-> 1, id |-> 10]).currentIndex
                     # sm.currentIndex
    IN  /\ CacheAddOf(k, [author |-> 1, id |-> 10])
        /\ lastKey' = k
        /\ tracked' =
             IF /\ tracked # undefined
                /\ translate(sm, tracked.key) # undefined
                /\ k # tracked.key
             THEN [key |-> tracked.key,
                   further |-> IF tracked.further < MaxFurther
                               THEN tracked.further + 1 ELSE MaxFurther]
             ELSE IF rotated /\ lastKey # 0 /\ k # lastKey
             THEN [key |-> lastKey, further |-> 1]
             ELSE undefined

(***************************************************************************)
(* The Mutex of async-mutex, as the handler uses it (src/index.ts:92)      *)
(***************************************************************************)
NewMutex == [locked |-> FALSE, queue |-> << >>]

\* mutex.acquire() by handler h: granted at once when free, else queued
AcquireAlways(mx, h) == [mutex |-> [mx EXCEPT !.locked = TRUE], granted |-> TRUE]

Acquire(mx, h) ==
  IF mx.locked
  THEN [mutex |-> [mx EXCEPT !.queue = Append(@, h)], granted |-> FALSE]
  ELSE [mutex |-> [mx EXCEPT !.locked = TRUE], granted |-> TRUE]

\* releaseMutex(): hands the mutex to the longest-waiting acquirer, if any
Release(mx) ==
  IF mx.queue = << >>
  THEN [mutex |-> [mx EXCEPT !.locked = FALSE], next |-> 0]
  ELSE [mutex |-> [mx EXCEPT !.queue = Tail(@)], next |-> Head(mx.queue)]

(***************************************************************************)
(* The 'GroupMessage' handler (src/index.ts:96-186)                        *)
(***************************************************************************)
NoSend == [status |-> "none", processed |-> << >>, quote |-> undefined]

\* the test of line 98 passing for every group
ConfiguredAny(g) == TRUE

\* line 98: the source group is one of the configured groups
Configured(g) == \E i \in 1..NumGroups : groupNumbers[i] = g

\* lines 107-108: the other configured groups, in configuration order
targets(fromGroup) == SelectSeq(groupNumbers, LAMBDA g : g # fromGroup)

\* the third argument of sendGroupMessage, quote?.id (line 164)
replyTo(o) == IF o.quote = undefined THEN undefined ELSE o.quote.id

\* whether the filter pass calls translate before it ends or throws
Translates(chain) ==
  \E i \in 1..Len(chain) :
    /\ chain[i].type = "Quote"
    /\ \A j \in 1..i : chain[j] # Null

\* the callback reading the cache of the source group
issueFromSource(m, g, st, mem) ==
  IF Throws(m.chain)
  THEN [status |-> "rejected", processed |-> << >>, quote |-> undefined]
  ELSE LET r == rewrite(m.chain, st[m.group], mem[g], mem[m.group], mem)
       IN  [status |-> "pending", processed |-> r.processed, quote |-> r.quote]

\* lines 109-164 for one target, up to the await of the send: the callback
\* throws while filtering, or issues the send of the rewritten chain
issue(m, g, st, mem) ==
  IF Throws(m.chain)
  THEN [status |-> "rejected", processed |-> << >>, quote |-> undefined]
  ELSE LET r == rewrite(m.chain, st[g], mem[g], mem[m.group], mem)
       IN  [status |-> "pending", processed |-> r.processed, quote |-> r.quote]

\* lines 163-173: the results Promise.all yields once every callback has
\* returned, failed sends filtered out, in the order of the targets
resultsUnlessFailure(h, m, o) ==
  IF \E g \in Groups : o[g].status = "failed" THEN << >>
  ELSE LET ok == SelectSeq(targets(m.group), LAMBDA g : o[g].status = "ok")
       IN  [i \in 1..Len(ok) |-> [sentId |-> SentId(h, ok[i]), target |-> ok[i]]]

results(h, m, o) ==
  LET ok == SelectSeq(targets(m.group), LAMBDA g : o[g].status = "ok")
  IN  [i \in 1..Len(ok) |-> [sentId |-> SentId(h, ok[i]), target |-> ok[i]]]

\* one call cache.add(original, translated) on the cache of a group
AddCall(group, original, translated) ==
  [group |-> group, original |-> original, translated |-> translated]

\* lines 175-178: the add calls of one turn for the sent ids of the other
\* results, in order
otherCallsOtherId(r, rs, messageAuthor) ==
  LET others == SelectSeq(rs, LAMBDA o : o.target # r.target)
  IN  [j \in 1..Len(others) |->
         AddCall(r.target, others[j].sentId,
                 [author |-> messageAuthor, id |-> others[j].sentId])]

otherCalls(r, rs, messageAuthor) ==
  LET others == SelectSeq(rs, LAMBDA o : o.target # r.target)
  IN  [j \in 1..Len(others) |->
         AddCall(r.target, others[j].sentId,
                 [author |-> messageAuthor, id |-> r.sentId])]

\* lines 179-180: the two add calls that end a turn
ownCallsNoSource(r, messageId, messageAuthor, fromGroup) ==
  <<AddCall(r.target, messageId, [author |-> messageAuthor, id |-> r.sentId])>>

ownCalls(r, messageId, messageAuthor, fromGroup) ==
  <<AddCall(r.target, messageId, [author |-> messageAuthor, id |-> r.sentId]),
    AddCall(fromGroup, r.sentId, [author |-> messageAuthor, id |-> messageId])>>

\* lines 174-181: the add calls of the loop over the results, from turn i on
RECURSIVE addCalls(_, _, _, _, _)
addCalls(rs, i, messageId, messageAuthor, fromGroup) ==
  IF i > Len(rs) THEN << >>
  ELSE otherCalls(rs[i], rs, messageAuthor)
         \o ownCalls(rs[i], messageId, messageAuthor, fromGroup)
         \o addCalls(rs, i + 1, messageId, messageAuthor, fromGroup)

\* the caches after the add calls from the i-th on
RECURSIVE applyCalls(_, _, _)
applyCalls(st, calls, i) ==
  IF i > Len(calls) THEN st
  ELSE Bind([st EXCEPT ![calls[i].group] =
                add(@, calls[i].original, calls[i].translated)],
            LAMBDA next : applyCalls(next, calls, i + 1))

\* the await of line 172 resumes once every send has settled
SomeSettled(o) ==
  \E g \in Groups : o[g].status \in {"ok", "failed"}

AllSettled(o) ==
  \A g \in Groups : o[g].status \in {"none", "ok", "failed"}

\* the finally block (lines 183-185) on the way out of a try block that threw
FinallyAfterThrowSkipped(mx) == [mutex |-> mx, next |-> 0]

FinallyAfterThrow(mx) == Release(mx)

\* history: handler h touches a cache
Touch(order, h) ==
  IF order # << >> /\ order[Len(order)] = h THEN order ELSE Append(order, h)

\* the chains delivered as the h-th message, posted in group g: plain text, a
\* chain with an entry that is no object, a reply to an id no cache knows, and
\* a reply to g's own copy of an earlier message
LocalCopy(k, g) == IF msgs[k].group = g THEN MessageId(k) ELSE SentId(k, g)

InboundChains(h, g) ==
  {<<Source(MessageId(h)), Plain("hi")>>,
   <<Source(MessageId(h)), Null>>,
   <<Source(MessageId(h)), Quote(1), Plain("re")>>}
  \cup {<<Source(MessageId(h)), Quote(LocalCopy(k, g)), Plain("re")>> :
          k \in 1..(h - 1)}

\* the senders of a message posted in group g: the members of g
Senders(g) == DOMAIN MemberList(g)

RelayInit ==
  /\ members = [g \in Groups |-> MemberList(g)]
  /\ stored = [g \in Groups |-> NewStoredMessages]
  /\ mutex = NewMutex
  /\ msgs = << >>
  /\ pc = << >>
  /\ out = << >>
  /\ accessOrder = << >>
  /\ lastDone = 0

\* no content chain is being rewritten outside the handler
RewriteIdle ==
  /\ rw = undefined
  /\ sent = undefined

Init == RelayInit /\ CacheInit /\ EvictInit /\ RewriteIdle

\* lines 96-105: the platform delivers a group message and the handler runs
\* up to the await of mutex.acquire()
Receive ==
  /\ Len(msgs) < MaxMsgs
  /\ \E g \in Groups \cup {OtherGroup} :
     \E sender \in Senders(g) :
     \E chain \in InboundChains(Len(msgs) + 1, g) :
       LET h == Len(msgs) + 1
           a == Acquire(mutex, h)
       IN  /\ msgs' = Append(msgs, [group |-> g, sender |-> sender, chain |-> chain])
           /\ out' = Append(out, [t \in Groups |-> NoSend])
           /\ IF ~Configured(g)
              THEN /\ pc' = Append(pc, "ignored")
                   /\ mutex' = mutex
              ELSE /\ pc' = Append(pc, IF a.granted THEN "acquired" ELSE "waiting")
                   /\ mutex' = a.mutex
  /\ UNCHANGED <<members, stored, accessOrder, lastDone>>
  /\ UNCHANGED <<cacheVars, evictVars, rewriteVars>>

\* lines 106-170, up to the awaits: with the mutex held, the callback of each
\* target runs in turn up to its send
Enter(h) ==
  /\ pc[h] = "acquired"
  /\ pc' = [pc EXCEPT ![h] = "sending"]
  /\ out' = [out EXCEPT ![h] =
              [g \in Groups |->
                 IF g = msgs[h].group THEN NoSend
                 ELSE issue(msgs[h], g, stored, members)]]
  /\ accessOrder' = IF Translates(msgs[h].chain) /\ targets(msgs[h].group) # << >>
                    THEN Touch(accessOrder, h) ELSE accessOrder
  /\ UNCHANGED <<members, stored, mutex, msgs, lastDone>>
  /\ UNCHANGED <<cacheVars, evictVars, rewriteVars>>

\* line 164-165: a send resolves with the id of the message sent
SendOk(h, g) ==
  /\ out[h][g].status = "pending"
  /\ out' = [out EXCEPT ![h][g].status = "ok"]
  /\ UNCHANGED <<members, stored, mutex, msgs, pc, accessOrder, lastDone>>
  /\ UNCHANGED <<cacheVars, evictVars, rewriteVars>>

\* lines 167-169: a send rejects; the callback logs and returns undefined.
\* The rejection value is an Error, as the platform client produces, which
\* line 168 logs without throwing.
SendFail(h, g) ==
  /\ out[h][g].status = "pending"
  /\ out' = [out EXCEPT ![h][g].status = "failed"]
  /\ UNCHANGED <<members, stored, mutex, msgs, pc, accessOrder, lastDone>>
  /\ UNCHANGED <<cacheVars, evictVars, rewriteVars>>

\* hand the mutex on: the next acquirer's await resumes
Resume(p, r) == IF r.next = 0 THEN p ELSE [p EXCEPT ![r.next] = "acquired"]

\* lines 172-185: every callback has returned; record the mappings, release
Record(h) ==
  /\ pc[h] = "sending"
  /\ AllSettled(out[h])
  /\ \E rs \in {results(h, msgs[h], out[h])} :
     \E calls \in {addCalls(rs, 1, msgs[h].chain[1].id, msgs[h].sender,
                             msgs[h].group)} :
       LET r == Release(mutex)
       IN  /\ stored' = applyCalls(stored, calls, 1)
           /\ accessOrder' = IF rs # << >> THEN Touch(accessOrder, h) ELSE accessOrder
           /\ mutex' = r.mutex
           /\ pc' = Resume([pc EXCEPT ![h] = "done"], r)
  /\ lastDone' = h
  /\ UNCHANGED <<members, msgs, out>>
  /\ UNCHANGED <<cacheVars, evictVars, rewriteVars>>

\* lines 172, 183-185: a callback threw, Promise.all rejects, the finally
\* block releases and the handler's promise rejects
Reject(h) ==
  /\ pc[h] = "sending"
  /\ \E g \in Groups : out[h][g].status = "rejected"
  /\ LET r == FinallyAfterThrow(mutex)
     IN  /\ mutex' = r.mutex
         /\ pc' = Resume([pc EXCEPT ![h] = "failed"], r)
  /\ UNCHANGED <<members, stored, msgs, out, accessOrder, lastDone>>
  /\ UNCHANGED <<cacheVars, evictVars, rewriteVars>>

Handlers == 1..Len(msgs)

Next ==
  \/ Receive
  \/ \E h \in Handlers : Enter(h)
  \/ \E h \in Handlers, g \in Groups : SendOk(h, g)
  \/ \E h \in Handlers, g \in Groups : SendFail(h, g)
  \/ \E h \in Handlers : Record(h)
  \/ \E h \in Handlers : Reject(h)

Spec == Init /\ [][Next]_vars

\* the runtime resumes a continuation that is ready and a send in flight
\* settles: a step of a handler that can be taken is eventually taken
Progress ==
  \E h \in Handlers :
    \/ Enter(h)
    \/ \E g \in Groups : SendOk(h, g) \/ SendFail(h, g)
    \/ Record(h)
    \/ Reject(h)

FairSpec == Spec /\ WF_vars(Progress)

CacheNext == CacheAdd /\ UNCHANGED <<relayVars, evictVars, rewriteVars>>

CacheSpec == Init /\ [][CacheNext]_vars

EvictNext == TrackedAdd /\ UNCHANGED <<relayVars, rewriteVars>>

EvictSpec == Init /\ [][EvictNext]_vars

(***************************************************************************)
(* The rewriting of one content chain for one target                       *)
(* (src/index.ts:109-165), on inputs of every shape                        *)
(***************************************************************************)
\* the entries a content chain is made of after its Source entry
MaxChain == 3

\* the cache the callback reads: 71 and 72 are ids of messages by users 1
\* and 2 whose local copies are 81 and 82; 70 is an id it does not hold
RewriteCache ==
  add(add(add(NewStoredMessages, 71, [author |-> 1, id |-> 81]),
          72, [author |-> 2, id |-> 82]),
      73, [author |-> 3, id |-> 83])

\* text, a mention of the bot, of a user who is in some groups and of a user
\* who is in none, and quotes of three messages
Segments ==
  {Plain("hi"), At(qq, "bot"), At(1, "d1"), At(4, "d4"),
   Quote(70), Quote(71), Quote(72)}

Chains ==
  {<<Source(MessageId(1))>> \o body :
     body \in UNION {[1..n -> Segments] : n \in 0..MaxChain}}

RewriteInit ==
  /\ \E chain \in Chains, from \in Groups, to \in Groups :
       /\ from # to
       /\ rw = [chain |-> chain, from |-> from, to |-> to,
                cache |-> RewriteCache]
  /\ sent = undefined

\* lines 109-164 of the callback for target rw.to: the chain is filtered and
\* mapped, and sendGroupMessage(processed, group, quote?.id) is called
Rewrite ==
  /\ rw # undefined
  /\ sent = undefined
  /\ sent' =
       LET r == rewrite(rw.chain, rw.cache, members[rw.to],
                        members[rw.from], members)
       IN  [processed |-> r.processed, group |-> rw.to,
            quoteId |-> replyTo(r), quote |-> r.quote]
  /\ UNCHANGED rw

RewriteNext == Rewrite /\ UNCHANGED <<relayVars, cacheVars, evictVars>>

\* the program as constructed, with one chain about to be rewritten
RewriteStart == RelayInit /\ CacheInit /\ EvictInit /\ RewriteInit

RewriteSpec == RewriteStart /\ [][RewriteNext]_vars

(***************************************************************************)
(* Claims about the cache, checked under CacheSpec                         *)
(***************************************************************************)
\* the keys for which translate returns a value
Translatable == {k \in Keys : translate(sm, k) # undefined}

\* C7 as stated: at most 2 x threshold distinct keys are translatable.
CacheBoundTwiceThreshold == Cardinality(Translatable) <= 2 * threshold

\* C7 as amended: at most 2 x (threshold + 1) distinct keys are translatable,
\* since each generation holds threshold + 1 entries before it rotates.
CacheBound == Cardinality(Translatable) <= 2 * (threshold + 1)

CacheBoundWitness ==
  /\ Cardinality(Translatable) = 2 * (threshold + 1)
  /\ MapSize(current(sm)) = threshold + 1
  /\ MapSize(other(sm)) = threshold + 1

\* C8 as stated: the current generation never holds more than threshold
\* entries.
CurrentWithinThreshold == MapSize(current(sm)) <= threshold

\* C8 as amended: the current generation never holds more than threshold + 1
\* entries; add rotates first only when current already holds more than
\* threshold entries, so the step that follows a full generation is a rotation
\* that leaves the new current with the added key alone.
CurrentBound ==
  /\ [](MapSize(current(sm)) <= threshold + 1)
  /\ [][MapSize(current(sm)) > threshold
          => /\ sm'.currentIndex = sm.otherIndex
             /\ MapSize(current(sm')) = 1]_vars
  /\ [][MapSize(current(sm)) <= threshold
          => sm'.currentIndex = sm.currentIndex]_vars

CurrentBoundWitness ==
  /\ MapSize(current(sm)) = threshold + 1
  /\ rotations = 2

\* C9: translate(k) is the value of the last add of k for as long as no
\* rotation has cleared the generation that add wrote to, also when an older
\* value of k sits in the other generation; translate reads current first, then
\* other, and is undefined exactly when k is in neither.
CacheCorrectness ==
  \A k \in Keys :
    /\ latest[k] # undefined => translate(sm, k) = latest[k].value
    /\ k \in DOMAIN current(sm) => translate(sm, k) = current(sm)[k]
    /\ (k \notin DOMAIN current(sm) /\ k \in DOMAIN other(sm))
         => translate(sm, k) = other(sm)[k]
    /\ translate(sm, k) = undefined
         <=> (k \notin DOMAIN current(sm) /\ k \notin DOMAIN other(sm))

\* a key re-added with a new value while its older value is still held by the
\* other generation, and another key already evicted
CacheCorrectnessWitness ==
  /\ \E k \in Keys :
       /\ k \in DOMAIN current(sm) /\ k \in DOMAIN other(sm)
       /\ current(sm)[k] # other(sm)[k]
       /\ latest[k] # undefined /\ latest[k].value = current(sm)[k]
  /\ \E k \in Keys : latest[k] = undefined /\ k \notin Translatable
  /\ rotations = 2

\* C10: from the empty cache, once threshold + 1 distinct keys are in, the next
\* add swaps the generations and leaves the new current holding one entry
\* alone, the one that add wrote, the former current untouched as the other
\* generation; the
\* threshold + 1 earlier keys stay translatable through the other generation
\* until the second rotation.
Rotation ==
  /\ [][(rotations = 0 /\ Cardinality(added) = threshold + 1)
          => /\ rotations' = 1
             /\ sm'.currentIndex = sm.otherIndex
             /\ sm'.otherIndex = sm.currentIndex
             /\ MapSize(current(sm')) = 1
             /\ \A k \in DOMAIN current(sm') :
                  latest'[k] = [value |-> current(sm')[k],
                                gen |-> sm'.currentIndex]
             /\ other(sm') = current(sm)
             /\ DOMAIN current(sm) = added]_vars
  /\ [][(rotations = 0 /\ Cardinality(added) < threshold + 1)
          => rotations' = 0]_vars
  /\ [](rotations = 1
          => /\ Cardinality(added) = threshold + 1
             /\ \A k \in added :
                  /\ k \in DOMAIN other(sm)
                  /\ translate(sm, k) # undefined)

\* just before the second rotation: the new generation is full and the first
\* threshold + 1 keys are all still held by the other one
RotationWitness ==
  /\ rotations = 1
  /\ MapSize(current(sm)) = threshold + 1
  /\ DOMAIN current(sm) \cap added = {}
  /\ DOMAIN other(sm) = added


(***************************************************************************)
(* Claims about the handler, checked under Spec and FairSpec               *)
(***************************************************************************)
\* the handlers between the grant of the mutex and its release
InCritical == {h \in Handlers : pc[h] \in {"acquired", "sending"}}

NoDuplicates(seq) ==
  \A i, j \in 1..Len(seq) : seq[i] = seq[j] => i = j

Issued(h) == {g \in Groups : out[h][g].status \in {"pending", "ok", "failed"}}

Succeeded(h) == {g \in Groups : out[h][g].status = "ok"}

Failed(h) == {g \in Groups : out[h][g].status = "failed"}

\* C1: at most one handler is in the critical section, and it holds the mutex;
\* a cache is read or written only by the handler in the critical section; and
\* once another message has touched a cache, an earlier one never does again.
MutualExclusion ==
  /\ [](/\ Cardinality(InCritical) <= 1
        /\ (InCritical # {} => mutex.locked)
        /\ NoDuplicates(accessOrder))
  /\ [][accessOrder' # accessOrder
          => InCritical = {accessOrder'[Len(accessOrder')]}]_vars
  /\ [][stored' # stored
          => \E h \in Handlers :
               InCritical = {h} /\ pc[h] = "sending" /\ pc'[h] = "done"]_vars

\* two messages from different groups, the first read and wrote caches with
\* one send failing, the second did both after it
MutualExclusionWitness ==
  /\ Len(msgs) = 2
  /\ msgs[1].group # msgs[2].group
  /\ Translates(msgs[1].chain) /\ Translates(msgs[2].chain)
  /\ Succeeded(1) # {} /\ Failed(1) # {} /\ Succeeded(2) # {}
  /\ pc[1] = "done" /\ pc[2] = "done"
  /\ accessOrder = <<1, 2>>

\* C2: when a send of a message fails, the send to every other target has been
\* issued all the same, the handler completes, and after it every successful
\* target T holds original id -> own sent id, the source holds T's sent id ->
\* original id, T holds a mapping for the sent id of every other successful
\* target, and no cache holds anything for the failed target's send.
FanOutIsolation ==
  /\ \A h \in Handlers :
       Failed(h) # {} => Issued(h) = Groups \ {msgs[h].group}
  /\ (lastDone # 0 /\ Failed(lastDone) # {}) =>
       LET h == lastDone
           m == msgs[h]
       IN  /\ pc[h] = "done"
           /\ \A T \in Succeeded(h) :
                /\ translate(stored[T], m.chain[1].id)
                     = [author |-> m.sender, id |-> SentId(h, T)]
                /\ translate(stored[m.group], SentId(h, T))
                     = [author |-> m.sender, id |-> m.chain[1].id]
                /\ \A O \in Succeeded(h) \ {T} :
                     /\ translate(stored[T], SentId(h, O)) # undefined
                     /\ translate(stored[T], SentId(h, O)).author = m.sender
           /\ \A F \in Failed(h) :
                /\ \A g \in Groups :
                     translate(stored[g], SentId(h, F)) = undefined
                /\ translate(stored[F], m.chain[1].id) = undefined

\* one send failed and two succeeded
FanOutIsolationWitness ==
  /\ lastDone # 0
  /\ Cardinality(Failed(lastDone)) = 1
  /\ Cardinality(Succeeded(lastDone)) >= 2

\* C3: after the handler has finished message m of author a from group S, each
\* successful target T translates m to {a, T's sent id}, S translates T's sent
\* id to {a, m}, and S has no entry for m itself.
MappingsRecorded ==
  lastDone # 0 =>
    LET h == lastDone
        m == msgs[h]
    IN  /\ \A T \in Succeeded(h) :
             /\ translate(stored[T], m.chain[1].id)
                  = [author |-> m.sender, id |-> SentId(h, T)]
             /\ translate(stored[m.group], SentId(h, T))
                  = [author |-> m.sender, id |-> m.chain[1].id]
        /\ translate(stored[m.group], m.chain[1].id) = undefined

\* every send of the second message succeeded, after a first message was
\* relayed from another group
MappingsRecordedWitness ==
  /\ lastDone = 2
  /\ pc[1] = "done" /\ Succeeded(1) # {}
  /\ msgs[1].group # msgs[2].group
  /\ Succeeded(2) = Groups \ {msgs[2].group}

\* C4 as stated: target T maps the sent id of another successful target O to
\* {author, O's sent id}.
CrossMappingOtherSentId ==
  lastDone # 0 =>
    \A T \in Succeeded(lastDone) :
      \A O \in Succeeded(lastDone) \ {T} :
        translate(stored[T], SentId(lastDone, O))
          = [author |-> msgs[lastDone].sender, id |-> SentId(lastDone, O)]

\* C4 as amended: target T maps the sent id of another successful target O to
\* {author, T's own sent id}.
CrossMapping ==
  lastDone # 0 =>
    \A T \in Succeeded(lastDone) :
      \A O \in Succeeded(lastDone) \ {T} :
        translate(stored[T], SentId(lastDone, O))
          = [author |-> msgs[lastDone].sender, id |-> SentId(lastDone, T)]

CrossMappingWitness ==
  /\ lastDone # 0
  /\ Cardinality(Succeeded(lastDone)) >= 2

\* C5: the mutex is held exactly while a handler is in the critical section,
\* so it is free once every handler has left, also by a throw; the queue holds
\* the waiting handlers; and every handler of a message from a configured
\* group eventually finishes and leaves the critical section.
Finished(h) == pc[h] \in {"done", "failed"}

PcOf(h) == IF h \in Handlers THEN pc[h] ELSE "none"

MutexReleased ==
  /\ [](/\ mutex.locked <=> InCritical # {}
        /\ {mutex.queue[i] : i \in 1..Len(mutex.queue)}
             = {h \in Handlers : pc[h] = "waiting"})
  /\ \A h \in 1..MaxMsgs :
       (PcOf(h) \in {"waiting", "acquired", "sending"})
         ~> (PcOf(h) \in {"done", "failed"})

\* the mutex is free again after a handler that threw and one that waited
\* behind it
MutexReleasedWitness ==
  /\ Len(msgs) = 2
  /\ pc[1] = "failed" /\ pc[2] = "done"
  /\ Failed(2) = Groups \ {msgs[2].group}
  /\ ~mutex.locked

QuotesOf(chain) == {i \in 1..Len(chain) : chain[i].type = "Quote"}

AtsOf(chain) == {i \in 1..Len(chain) : chain[i].type = "At"}

SelfAtsOf(chain) == {i \in AtsOf(chain) : chain[i].target = qq}

\* the quote entries of a chain that the cache translates
Resolving(chain, cache) ==
  {i \in QuotesOf(chain) : translate(cache, chain[i].id) # undefined}

\* the translation of the last quote entry that the cache translates
LastResolved(chain, cache) ==
  IF Resolving(chain, cache) = {} THEN undefined
  ELSE LET last == CHOOSE i \in Resolving(chain, cache) :
                     \A j \in Resolving(chain, cache) : j <= i
       IN  translate(cache, chain[last].id)

\* the names a user goes by: in the member snapshots, and the display text of
\* the mentions of the chain
NamesOf(u, chain) ==
  {members[g][u] : g \in {x \in Groups : u \in DOMAIN members[x]}}
    \cup {chain[i].display : i \in AtsOf(chain)}

\* an outbound entry that is the plain text of a mention
Downgraded(e, chain) ==
  /\ e.type = "Plain"
  /\ \E u \in {chain[i].target : i \in AtsOf(chain)} \cup {1, 2, 3, qq} :
       \E n \in NamesOf(u, chain) : e.text = "@" \o n

\* C11: the chain sent to T holds no live at-mention of a user who is not in
\* T's member snapshot: every live at-mention targets the author of the
\* resolved quote, and that author is a member of T; and an at-mention of a
\* user (other than the bot) who is absent from T goes out as the plain text
\* '@' and a name of that user.
MentionDowngrade ==
  sent # undefined =>
    LET q == LastResolved(rw.chain, rw.cache)
    IN  /\ \A j \in AtsOf(sent.processed) :
             /\ q # undefined
             /\ sent.processed[j].target = q.author
             /\ sent.processed[j].target \in DOMAIN members[rw.to]
        /\ \A i \in AtsOf(rw.chain) \ SelfAtsOf(rw.chain) :
             rw.chain[i].target \notin DOMAIN members[rw.to] =>
               \E j \in 1..Len(sent.processed) :
                 /\ sent.processed[j].type = "Plain"
                 /\ \E n \in NamesOf(rw.chain[i].target, rw.chain) :
                      sent.processed[j].text = "@" \o n

\* a chain with a mention of an absent user and a mention that stays live
\* has been rewritten
MentionDowngradeWitness ==
  /\ sent # undefined
  /\ AtsOf(sent.processed) # {}
  /\ \E i \in AtsOf(rw.chain) \ SelfAtsOf(rw.chain) :
       rw.chain[i].target \notin DOMAIN members[rw.to]

\* C12 as stated: when the chain holds a quote entry that resolves to a
\* message by U, U is in the target's member snapshot and the chain holds a
\* mention of the bot, the chain sent holds a live mention of U.
ReplyMentionOfAnyQuote ==
  sent # undefined =>
    \A i \in Resolving(rw.chain, rw.cache) :
      LET U == translate(rw.cache, rw.chain[i].id).author
      IN  U \in DOMAIN members[rw.to] /\ SelfAtsOf(rw.chain) # {} =>
            \E j \in AtsOf(sent.processed) : sent.processed[j].target = U

\* C12, amended: when the last quote entry that resolves is a message by U, U
\* is in the target's member snapshot and the chain holds a mention of the
\* bot, in any position, the chain sent holds a live mention of U.
ReplyMention ==
  sent # undefined =>
    LET q == LastResolved(rw.chain, rw.cache)
    IN  /\ q # undefined
        /\ q.author \in DOMAIN members[rw.to]
        /\ SelfAtsOf(rw.chain) # {}
        => \E j \in AtsOf(sent.processed) :
             sent.processed[j].target = q.author

\* a reply whose mention of the bot comes before the quote entry, and one
\* whose mention comes after it, have been rewritten for a group the quoted
\* author is in
ReplyMentionWitness ==
  /\ sent # undefined
  /\ LastResolved(rw.chain, rw.cache) # undefined
  /\ LastResolved(rw.chain, rw.cache).author \in DOMAIN members[rw.to]
  /\ \E i \in SelfAtsOf(rw.chain) : \E k \in Resolving(rw.chain, rw.cache) :
       i < k
  /\ \E i \in SelfAtsOf(rw.chain) : \E k \in Resolving(rw.chain, rw.cache) :
       k < i

(***************************************************************************)
(* Claims about the handler, continued                                     *)
(***************************************************************************)
\* the handler invocations of messages from groups that are not configured
Unconfigured == {h \in Handlers : ~(msgs[h].group \in Groups)}

\* C13: a message whose source group is not configured causes no send, no
\* cache change and no mutex acquisition: its delivery leaves the mutex, the
\* caches, the member snapshots and every other handler as they were, and its
\* handler has returned, has issued no send and never waits for the mutex.
Filtering ==
  /\ [](\A h \in Unconfigured :
          /\ pc[h] = "ignored"
          /\ \A g \in Groups : out[h][g] = NoSend
          /\ \A i \in 1..Len(mutex.queue) : mutex.queue[i] # h)
  /\ [][Len(msgs') > Len(msgs) /\ ~(msgs'[Len(msgs')].group \in Groups) =>
          /\ mutex' = mutex
          /\ stored' = stored
          /\ members' = members
          /\ accessOrder' = accessOrder
          /\ lastDone' = lastDone
          /\ \A h \in Handlers : pc'[h] = pc[h] /\ out'[h] = out[h]]_vars

\* a message from a group that is not configured has arrived while another
\* handler holds the mutex with sends in flight
FilteringWitness ==
  \E h \in Unconfigured : \E h2 \in Handlers :
    /\ pc[h2] = "sending"
    /\ h2 < h
    /\ mutex.locked

\* the entries of a chain sent that come from a mention: the live mentions
\* and the plain texts of mentions
MentionsOut(processed, chain) ==
  {j \in 1..Len(processed) :
     processed[j].type = "At" \/ Downgraded(processed[j], chain)}

\* the number of entries of the chain sent that come from a mention of the
\* bot: those that come from a mention, less the mentions of other users,
\* which the filter pass always keeps
SelfDerived(processed, chain) ==
  Cardinality(MentionsOut(processed, chain))
    - Cardinality(AtsOf(chain) \ SelfAtsOf(chain))

\* C14 as stated: when no quote entry resolves, the chain sent holds no entry
\* that comes from a mention of the bot, live or plain text.
SelfMentionsDropped ==
  sent # undefined /\ Resolving(rw.chain, rw.cache) = {} =>
    SelfDerived(sent.processed, rw.chain) = 0

\* C14, amended: when no quote entry resolves, every mention of the bot goes
\* out as a plain text '@<name>' entry, and the chain sent holds no live
\* mention.
SelfMentionsDowngraded ==
  sent # undefined /\ Resolving(rw.chain, rw.cache) = {} =>
    /\ SelfDerived(sent.processed, rw.chain) = Cardinality(SelfAtsOf(rw.chain))
    /\ AtsOf(sent.processed) = {}
    /\ SelfAtsOf(rw.chain) # {} =>
         \E j \in 1..Len(sent.processed) :
           /\ sent.processed[j].type = "Plain"
           /\ \E n \in NamesOf(qq, rw.chain) : sent.processed[j].text = "@" \o n

\* a chain with two mentions of the bot and a quote entry that does not
\* resolve has been rewritten
SelfMentionsDowngradedWitness ==
  /\ sent # undefined
  /\ Resolving(rw.chain, rw.cache) = {}
  /\ QuotesOf(rw.chain) # {}
  /\ Cardinality(SelfAtsOf(rw.chain)) = 2

\* the mentions of the bot that come after a quote entry that resolves: the
\* ones the filter pass meets with a quote in hand
SelfAtsAfterQuote(chain, cache) ==
  {i \in SelfAtsOf(chain) : \E k \in Resolving(chain, cache) : k < i}

\* C15 as stated: whatever the number and the positions of the mentions of
\* the bot, the chain sent holds at most one entry that comes from one.
AtMostOneSelfMention ==
  sent # undefined => SelfDerived(sent.processed, rw.chain) <= 1

\* C15, amended: of the mentions of the bot that come after a quote entry
\* that resolves, one survives; every mention of the bot that comes before
\* the first such quote entry survives as well.
AtMostOneSelfMentionAfterQuote ==
  sent # undefined =>
    LET after == SelfAtsAfterQuote(rw.chain, rw.cache)
        before == SelfAtsOf(rw.chain) \ after
    IN  SelfDerived(sent.processed, rw.chain)
          = Cardinality(before) + (IF after = {} THEN 0 ELSE 1)

\* a chain with two mentions of the bot after a quote entry that resolves has
\* been rewritten
AtMostOneSelfMentionWitness ==
  /\ sent # undefined
  /\ Cardinality(SelfAtsAfterQuote(rw.chain, rw.cache)) = 2

\* the handlers whose sends are issued and whose mappings are not yet
\* recorded: the caches are as the callbacks read them
Sending == {h \in Handlers : pc[h] = "sending"}

\* C16 as stated: the quote of a message from S rewritten for T is resolved
\* by translate on the cache of S.
QuoteFromSourceCache ==
  \A h \in Sending : \A g \in Issued(h) :
    out[h][g].status # "rejected" =>
      out[h][g].quote = LastResolved(msgs[h].chain, stored[msgs[h].group])

\* C16, amended: the quote of a message from S rewritten for T is resolved by
\* translate on the cache of T, and the rewriting only reads: the step that
\* rewrites and issues the sends leaves every cache as it was.
QuoteFromTargetCache ==
  /\ [](\A h \in Sending : \A g \in Issued(h) :
          out[h][g].status # "rejected" =>
            out[h][g].quote = LastResolved(msgs[h].chain, stored[g]))
  /\ [][(\E h \in Handlers : pc[h] = "acquired" /\ pc'[h] = "sending")
          => stored' = stored]_vars

\* a reply has been rewritten for a target whose cache resolves the quoted id
\* while the cache of the source group does not resolve it to the same
QuoteFromTargetCacheWitness ==
  \E h \in Sending : \E g \in Issued(h) :
    /\ out[h][g].status # "rejected"
    /\ out[h][g].quote # undefined
    /\ LastResolved(msgs[h].chain, stored[msgs[h].group]) # out[h][g].quote

\* C17: no quote entry is in the chain sent; the resolved quote is the
\* translation of the last quote entry that resolves, a later one that does
\* not resolve leaving it in place; when none resolves the send is made with
\* no reply-to id, otherwise as a reply to the id of the resolved quote.
QuoteHandling ==
  sent # undefined =>
    /\ QuotesOf(sent.processed) = {}
    /\ sent.quote = LastResolved(rw.chain, rw.cache)
    /\ IF Resolving(rw.chain, rw.cache) = {}
       THEN sent.quoteId = undefined
       ELSE sent.quoteId = LastResolved(rw.chain, rw.cache).id

\* a chain with two quote entries that resolve and a later one that does not
\* has been rewritten and sent as a reply
QuoteHandlingWitness ==
  /\ sent # undefined
  /\ Cardinality(Resolving(rw.chain, rw.cache)) = 2
  /\ \E j \in QuotesOf(rw.chain) \ Resolving(rw.chain, rw.cache) :
       \A i \in Resolving(rw.chain, rw.cache) : i < j
  /\ sent.quoteId = 82

\* the user a mention is of once the map pass has retargeted it: a mention of
\* the bot is of the author of the resolved quote, when there is one
MentionedUser(x, q) ==
  IF x.target = qq /\ q # undefined THEN q.author ELSE x.target

\* the configured groups whose member snapshot has user u, as positions in
\* configuration order
GroupsWith(u) ==
  {i \in 1..NumGroups : u \in DOMAIN members[groupNumbers[i]]}

\* the name the plain text of a mention of u shows: in T's snapshot, else in
\* S's, else in the first configured group that has u, else the display text
ExpectedName(u, display, T, S) ==
  IF u \in DOMAIN members[T] THEN members[T][u]
  ELSE IF u \in DOMAIN members[S] THEN members[S][u]
  ELSE IF GroupsWith(u) # {}
  THEN members[groupNumbers[CHOOSE i \in GroupsWith(u) :
                              \A j \in GroupsWith(u) : i <= j]][u]
  ELSE display

\* whether a mention of u reaches target T as a live mention
StaysLive(u, q, T) ==
  q # undefined /\ u = q.author /\ u \in DOMAIN members[T]

\* C18: the plain text of a downgraded mention of U is '@' followed by U's
\* name in T's member snapshot if present, else in S's, else in the first
\* configured group, in configuration order, whose snapshot has U, else the
\* display text of the mention: every mention of another user that is not
\* live goes out as that text, and every plain text that the rewriting
\* adds is that text for a mention of the chain.
NameResolutionOrder ==
  sent # undefined =>
    LET q == LastResolved(rw.chain, rw.cache)
        text(x) == "@" \o ExpectedName(MentionedUser(x, q), x.display,
                                       rw.to, rw.from)
    IN  /\ \A i \in AtsOf(rw.chain) \ SelfAtsOf(rw.chain) :
             ~StaysLive(rw.chain[i].target, q, rw.to) =>
               \E j \in 1..Len(sent.processed) :
                 sent.processed[j] = Plain(text(rw.chain[i]))
        /\ \A j \in 1..Len(sent.processed) :
             /\ sent.processed[j].type = "Plain"
             /\ \A i \in 1..Len(rw.chain) : rw.chain[i] # sent.processed[j]
             => \E i \in AtsOf(rw.chain) :
                  sent.processed[j] = Plain(text(rw.chain[i]))

\* a mention of a user who is in neither T nor S but in two other configured
\* groups, and a mention of a user who is in no group, have been downgraded
NameResolutionOrderWitness ==
  /\ sent # undefined
  /\ \E i \in AtsOf(rw.chain) :
       /\ rw.chain[i].target \notin DOMAIN members[rw.to]
       /\ rw.chain[i].target \notin DOMAIN members[rw.from]
       /\ Cardinality(GroupsWith(rw.chain[i].target)) = 2
  /\ \E i \in AtsOf(rw.chain) \ SelfAtsOf(rw.chain) :
       GroupsWith(rw.chain[i].target) = {}
  /\ Cardinality(MentionsOut(sent.processed, rw.chain)) = 2

\* message h1 was relayed to every other configured group and all the
\* mappings recorded for it are still in the caches
RelayedAndKept(h1) ==
  LET S == msgs[h1].group
  IN  /\ pc[h1] = "done"
      /\ Succeeded(h1) = Groups \ {S}
      /\ \A T \in Groups \ {S} :
           /\ translate(stored[S], SentId(h1, T)) # undefined
           /\ translate(stored[T], MessageId(h1)) # undefined
           /\ \A O \in Groups \ {S, T} :
                translate(stored[T], SentId(h1, O)) # undefined

\* message h2 quotes the copy of message h1 that is local to its own group
QuotesLocalCopy(h2, h1) ==
  /\ QuotesOf(msgs[h2].chain) # {}
  /\ \A i \in QuotesOf(msgs[h2].chain) :
       msgs[h2].chain[i].id = LocalCopy(h1, msgs[h2].group)

\* C19: when message h1 by author a was relayed to every other group and none
\* of its mappings is evicted, a later message in any group G that quotes G's
\* local copy of h1 is sent to each target T as a reply to T's local copy of
\* h1, its quote resolved to author a and that id.
QuoteConsistency ==
  \A h2 \in Sending : \A h1 \in Handlers :
    RelayedAndKept(h1) /\ QuotesLocalCopy(h2, h1) =>
      \A T \in Groups \ {msgs[h2].group} :
        /\ out[h2][T].status \in {"pending", "ok", "failed"}
        /\ out[h2][T].quote =
             [author |-> msgs[h1].sender, id |-> LocalCopy(h1, T)]
        /\ replyTo(out[h2][T]) = LocalCopy(h1, T)

\* a reply posted in a group that received a relayed copy has been rewritten
\* for a third group and for the group of the original
QuoteConsistencyWitness ==
  \E h2 \in Sending : \E h1 \in Handlers :
    /\ RelayedAndKept(h1)
    /\ QuotesLocalCopy(h2, h1)
    /\ msgs[h2].group # msgs[h1].group
    /\ \E T \in Groups \ {msgs[h2].group, msgs[h1].group} :
         out[h2][T].quote # undefined /\ out[h2][T].quote.id = SentId(h1, T)
    /\ out[h2][msgs[h1].group].quote # undefined
    /\ out[h2][msgs[h1].group].quote.id = MessageId(h1)

(***************************************************************************)
(* Claims about the lifetime of a key, checked under EvictSpec             *)
(***************************************************************************)
\* the key followed since the rotation after its add is translatable
TrackedKept == translate(sm, tracked.key) # undefined

\* C20 as stated, on the adds that evict soonest: a key inserted by the last
\* add before a rotation has stopped being translatable once threshold
\* further add calls have been made.
EarlyEviction ==
  tracked # undefined /\ tracked.further >= threshold => ~TrackedKept

\* C20, amended: on every sequence of add calls, a key inserted by the last
\* add before a rotation stays translatable through the next threshold + 1
\* add calls; the add call after those is the earliest that evicts it.
NoEarlyEviction ==
  tracked # undefined /\ tracked.further <= threshold + 1 => TrackedKept

\* a key inserted by the last add before a rotation has been evicted by the
\* add call that follows the threshold + 1 it stayed translatable through
NoEarlyEvictionWitness ==
  /\ tracked # undefined
  /\ tracked.further = threshold + 2
  /\ ~TrackedKept

====
